---- MODULE Spec2Model ----
(***************************************************************************)
(* Model of the two parsers of pyext/src/io/data_parsers.py:               *)
(*   parse_dssp          secondary-structure segments of a DSSP file       *)
(*   parse_xlinks_davis  de-duplicated cross-link records                  *)
(* Each call is a state machine that reads its file one line per step.     *)
(* The file's content is not fixed in advance: every read draws the next   *)
(* line from a small alphabet, and the lines read so far are kept in       *)
(* `lines` / `xlines`, so that a property of the result can be stated      *)
(* against the input that produced it.                                     *)
(***************************************************************************)
EXTENDS Integers, Sequences, FiniteSets, TLC

VARIABLES
    lines,            \* parse_dssp: data lines read so far (after the header)
    limit_to_chains,  \* parse_dssp: the chain filter, {} for the default ''
    st,               \* parse_dssp: the locals of the call
    xlines,           \* parse_xlinks_davis: lines read so far
    max_num,          \* parse_xlinks_davis: argument
    name_map,         \* parse_xlinks_davis: argument
    named_offsets,    \* parse_xlinks_davis: argument
    xl                \* parse_xlinks_davis: the locals of the call

vars == <<lines, limit_to_chains, st, xlines, max_num, name_map, named_offsets, xl>>

dsspVars == <<lines, limit_to_chains, st>>
xlVars == <<xlines, max_num, name_map, named_offsets, xl>>

\* Longest DSSP data section and longest cross-link file explored.
MaxLines == 3
MaxXlLines == 3

None == "None"
Unbound == "unbound"

(***************************************************************************)
(* parse_dssp                                                              *)
(***************************************************************************)

helix_classes == {"G", "H", "I"}
strand_classes == {"E", "B"}
loop_classes == {" ", "", "T", "S"}

\* The lookup table built from the three class lists.
sse_dict ==
    [c \in helix_classes \cup strand_classes \cup loop_classes |->
        IF c \in helix_classes THEN "helix"
        ELSE IF c \in strand_classes THEN "beta"
        ELSE "loop"]

\* A data line, by the columns the parser reads: brk is line[9] == " ",
\* num is int(line[5:10]), chain is line[11], ss is line[16], sheet is line[33].
BreakLine == [brk |-> TRUE, num |-> 0, chain |-> " ", ss |-> " ", sheet |-> " "]

ResLine(n, c, code, sh) == [brk |-> FALSE, num |-> n, chain |-> c, ss |-> code, sheet |-> sh]

\* The lines a file may hold: helix rows of two chains, strand rows of two
\* sheets, loop rows, one row for every other code of the table, a row with
\* a code outside the table, and the chain-break row.
DsspLines ==
    {BreakLine}
    \cup {ResLine(n, c, "H", " ") : n \in {1, 2}, c \in {"A", "B"}}
    \cup {ResLine(n, "A", "E", sh) : n \in {1, 2}, sh \in {"a", "b"}}
    \cup {ResLine(n, "A", " ", " ") : n \in {1, 2}}
    \cup {ResLine(1, "A", code, " ") : code \in {"G", "I", "T", "S", "X"}}
    \cup {ResLine(1, "A", "B", "a")}

ChainFilters == {{}, {"A"}, {"B"}}

\* State of the call on entry to the loop over the file.
DsspInit ==
    [pc |-> "scan",
     file |-> "open",
     start |-> FALSE,
     sses |-> [helix |-> <<>>, beta |-> <<>>, loop |-> <<>>],
     beta_dict |-> <<>>,
     prev_sstype |-> None,
     cur_sse |-> [chain |-> "", residue_tuple |-> <<-1, -1>>],
     prev_beta_id |-> None,
     pdb_res_num |-> 0,
     chain |-> Unbound,
     sstype |-> Unbound,
     beta_id |-> Unbound,
     err |-> [type |-> None, arg |-> None],
     result |-> <<>>]

\* raise: the exception leaves the call, nothing is returned.
Raise(s, type, arg) == [s EXCEPT !.pc = "error", !.err = [type |-> type, arg |-> arg]]

\* beta_dict[k].append(v) on a defaultdict(list)
DictAppend(bd, k, v) ==
    IF k \in DOMAIN bd
    THEN [bd EXCEPT ![k] = Append(@, v)]
    ELSE [x \in DOMAIN bd \cup {k} |-> IF x = k THEN <<v>> ELSE bd[x]]

\* A lookup with a default class instead of the KeyError.
GatherLine_DefaultLoop(s, line) ==
    [s EXCEPT !.pdb_res_num = line.num, !.chain = line.chain,
              !.sstype = IF line.ss \in DOMAIN sse_dict THEN sse_dict[line.ss] ELSE "loop",
              !.beta_id = line.sheet]

\* "gather line info": the four locals are bound in this order, and the
\* table lookup raises KeyError for a code that is not a key.
GatherLine(s, line) ==
    LET s2 == [s EXCEPT !.pdb_res_num = line.num, !.chain = line.chain]
    IN  IF line.ss \in DOMAIN sse_dict
        THEN [s2 EXCEPT !.sstype = sse_dict[line.ss], !.beta_id = line.sheet]
        ELSE Raise(s2, "KeyError", line.ss)

\* The strand filed under the sheet label of the row just read.
StoreSSE_CurrentLabel(s) ==
    IF s.prev_sstype \in {"helix", "loop"}
    THEN [s EXCEPT !.sses[s.prev_sstype] = Append(@, s.cur_sse)]
    ELSE IF s.prev_sstype = "beta"
    THEN [s EXCEPT !.beta_dict = DictAppend(@, s.beta_id, s.cur_sse)]
    ELSE s

\* "add cur_sse to the right place"
StoreSSE(s) ==
    IF s.prev_sstype \in {"helix", "loop"}
    THEN [s EXCEPT !.sses[s.prev_sstype] = Append(@, s.cur_sse)]
    ELSE IF s.prev_sstype = "beta"
    THEN [s EXCEPT !.beta_dict = DictAppend(@, s.prev_beta_id, s.cur_sse)]
    ELSE s

\* cur_sse = {'chain':chain,'residue_tuple':[pdb_res_num,pdb_res_num]}
\* reads two locals that are unbound until a residue row has been gathered.
NewSSE(s) ==
    IF s.chain = Unbound
    THEN Raise(s, "UnboundLocalError", "chain")
    ELSE [s EXCEPT !.cur_sse = [chain |-> s.chain,
                                residue_tuple |-> <<s.pdb_res_num, s.pdb_res_num>>]]

\* "decide whether to extend or store the SSE"
DecideSSE(s, chain_break) ==
    IF s.prev_sstype = None
    THEN NewSSE(s)
    ELSE IF s.sstype /= s.prev_sstype \/ chain_break
    THEN NewSSE(StoreSSE(s))
    ELSE [s EXCEPT !.cur_sse.residue_tuple[2] = s.pdb_res_num]

UpdatePrev(s, chain_break) ==
    IF chain_break
    THEN [s EXCEPT !.prev_sstype = None, !.prev_beta_id = None]
    ELSE [s EXCEPT !.prev_sstype = s.sstype, !.prev_beta_id = s.beta_id]

\* line[9] == " "
IsChainBreak(line) == line.brk

\* limit_to_chains != '' and line[11] not in limit_to_chains
FilteredOut(line, filter) == filter /= {} /\ line.chain \notin filter

\* A filtered-out row handled as a chain break.
ProcessLine_FilterBreaks(s, line, filter) ==
    LET chain_break == IsChainBreak(line) \/ FilteredOut(line, filter)
    IN  LET g == IF chain_break THEN s ELSE GatherLine(s, line)
        IN  IF g.pc = "error"
            THEN g
            ELSE LET dcd == DecideSSE(g, chain_break)
                 IN  IF dcd.pc = "error" THEN dcd ELSE UpdatePrev(dcd, chain_break)

\* One pass of the loop body for a data line read after the header.
ProcessLine(s, line, filter) ==
    LET chain_break == IsChainBreak(line)
    IN  IF ~chain_break /\ FilteredOut(line, filter)
        THEN s
        ELSE LET g == IF chain_break THEN s ELSE GatherLine(s, line)
             IN  IF g.pc = "error"
                 THEN g
                 ELSE LET dcd == DecideSSE(g, chain_break)
                      IN  IF dcd.pc = "error" THEN dcd ELSE UpdatePrev(dcd, chain_break)

\* "final SSE processing"
FinalSSE(s) == IF s.prev_sstype /= None THEN StoreSSE(s) ELSE s

\* The orders in which a dict with key set S may be iterated.
KeyOrders(S) ==
    {o \in [1..Cardinality(S) -> S] : \A i, j \in 1..Cardinality(S) : o[i] = o[j] => i = j}

\* "gather betas": one group per key of beta_dict, in the dict's iteration order.
GatherBetas(s, order) ==
    [s EXCEPT !.sses.beta = [i \in 1..Len(order) |-> s.beta_dict[order[i]]]]

\* The end of the loop and the return.  The function never closes the file:
\* whether the handle is closed when the call ends is left to the runtime's
\* collector.
DsspFinish(s, order, closed) ==
    LET f == GatherBetas(FinalSSE(s), order)
    IN  [f EXCEPT !.pc = "done",
                  !.result = <<f.sses>>,
                  !.file = IF closed THEN "closed" ELSE "open"]

\* fields[1] == "RESIDUE": start parsing from here
ReadHeader ==
    /\ st.pc = "scan"
    /\ ~st.start
    /\ st' = [st EXCEPT !.start = TRUE]
    /\ UNCHANGED <<lines, limit_to_chains, xlVars>>

ReadLine ==
    /\ st.pc = "scan"
    /\ st.start
    /\ Len(lines) < MaxLines
    /\ \E line \in DsspLines :
          /\ lines' = Append(lines, line)
          /\ st' = ProcessLine(st, line, limit_to_chains)
    /\ UNCHANGED <<limit_to_chains, xlVars>>

DsspReturn ==
    /\ st.pc = "scan"
    /\ \E order \in KeyOrders(DOMAIN FinalSSE(st).beta_dict), closed \in BOOLEAN :
          st' = DsspFinish(st, order, closed)
    /\ UNCHANGED <<lines, limit_to_chains, xlVars>>

XlIdle ==
    /\ xlines = <<>>
    /\ max_num = -1
    /\ name_map = <<>>
    /\ named_offsets = <<>>
    /\ xl = [pc |-> "idle"]

InitDssp ==
    /\ lines = <<>>
    /\ limit_to_chains \in ChainFilters
    /\ st = DsspInit
    /\ XlIdle

NextDssp == ReadHeader \/ ReadLine \/ DsspReturn

SpecDssp == InitDssp /\ [][NextDssp]_vars

(***************************************************************************)
(* parse_xlinks_davis                                                      *)
(* A string is a sequence of one-character strings.                        *)
(***************************************************************************)

\* Character codes, for the comparison of strings by sorted().
Ord(c) ==
    CASE c = "-" -> 45 [] c = "." -> 46
      [] c = "0" -> 48 [] c = "1" -> 49 [] c = "2" -> 50 [] c = "3" -> 51
      [] c = "4" -> 52 [] c = "5" -> 53 [] c = "6" -> 54 [] c = "7" -> 55
      [] c = "8" -> 56 [] c = "9" -> 57
      [] c = "A" -> 65 [] c = "B" -> 66 [] c = "a" -> 97 [] c = "b" -> 98

Digit(d) == CASE d = 0 -> "0" [] d = 1 -> "1" [] d = 2 -> "2" [] d = 3 -> "3" [] d = 4 -> "4"
              [] d = 5 -> "5" [] d = 6 -> "6" [] d = 7 -> "7" [] d = 8 -> "8" [] d = 9 -> "9"

\* int(text) for a text of decimal digits
RECURSIVE ParseInt(_)
ParseInt(t) ==
    IF t = <<>> THEN 0
    ELSE 10 * ParseInt(SubSeq(t, 1, Len(t) - 1)) + (Ord(t[Len(t)]) - Ord("0"))

\* '%i' % n
RECURSIVE FormatInt(_)
FormatInt(n) ==
    IF n < 0 THEN <<"-">> \o FormatInt(-n)
    ELSE IF n < 10 THEN <<Digit(n)>>
    ELSE FormatInt(n \div 10) \o <<Digit(n % 10)>>

\* a < b for two strings, as Python compares them
RECURSIVE StrLess(_, _)
StrLess(a, b) ==
    IF b = <<>> THEN FALSE
    ELSE IF a = <<>> THEN TRUE
    ELSE IF Head(a) /= Head(b) THEN Ord(Head(a)) < Ord(Head(b))
    ELSE StrLess(Tail(a), Tail(b))

\* sorted([a, b]) as a tuple
SortedPair(a, b) == IF StrLess(b, a) THEN <<b, a>> ELSE <<a, b>>

\* A line of the cross-link file: ok says that it splits into seven fields
\* of which the fifth and the sixth match >NAME(RESIDUE); n1, t1, n2, t2 are
\* the matched names and residue texts, score is the parsed seventh field.
XlLine(n1, t1, n2, t2, score) ==
    [ok |-> TRUE, n1 |-> n1, t1 |-> t1, n2 |-> n2, t2 |-> t2, score |-> score]

MalformedLine ==
    [ok |-> FALSE, n1 |-> <<>>, t1 |-> <<>>, n2 |-> <<>>, t2 |-> <<>>, score |-> 0]

\* The pairs of ends a file may hold: a link, the same link with its ends
\* swapped, the same link under an alias of its first name, and a link to
\* another residue; each with two scores.
XlPairs ==
    {<< <<"A">>, <<"1">>, <<"B">>, <<"1">> >>,
     << <<"B">>, <<"1">>, <<"A">>, <<"1">> >>,
     << <<"a">>, <<"1">>, <<"B">>, <<"1">> >>,
     << <<"A">>, <<"2">>, <<"B">>, <<"1">> >>}

XlLines ==
    {MalformedLine} \cup {XlLine(p[1], p[2], p[3], p[4], sc) : p \in XlPairs, sc \in {1, 2}}

NoMap == <<>>
AliasMap == [n \in {<<"a">>} |-> <<"A">>]
OffsetA == [n \in {<<"A">>} |-> 9]

\* The arguments explored: <<name_map, named_offsets>>.
XlArguments == {<<NoMap, NoMap>>, <<AliasMap, NoMap>>, <<NoMap, OffsetA>>, <<AliasMap, OffsetA>>}

MaxNums == {-1, 0, 1, 2}

\* State of the call on entry to the loop over the file.
XlInit ==
    [pc |-> "scan",
     file |-> "open",
     data |-> <<>>,
     found |-> {},
     err |-> [type |-> None, arg |-> None],
     result |-> <<>>]

\* The bound compared with <= instead of <.
Examined_OffByOne(nl, mx) == mx = -1 \/ nl <= mx

\* max_num==-1 or nl<max_num
Examined(nl, mx) == mx = -1 \/ nl < mx

\* One end: the name through name_map, the residue plus the offset of the
\* mapped name.
XlEnd(n, t, nm, off) ==
    LET name == IF n \in DOMAIN nm THEN nm[n] ELSE n
        r == ParseInt(t)
    IN  [molecule |-> name,
         residue_index |-> IF name \in DOMAIN off THEN r + off[name] ELSE r]

\* '%s.%i'%(n,r)
EndString(e) == e.molecule \o <<".">> \o FormatInt(e.residue_index)

\* The key without the sort.
XlKey_Unsorted(e1, e2) == <<EndString(e1), EndString(e2)>>

\* key=tuple(sorted(['%s.%i'%(n1,r1),'%s.%i'%(n2,r2)]))
XlKey(e1, e2) == SortedPair(EndString(e1), EndString(e2))

\* One pass of the loop body for line number nl.
XlProcess(s, nl, l, mx, nm, off) ==
    IF ~Examined(nl, mx)
    THEN s
    ELSE IF ~l.ok
    THEN Raise(s, "ValueError", "unpack")
    ELSE LET e1 == XlEnd(l.n1, l.t1, nm, off)
             e2 == XlEnd(l.n2, l.t2, nm, off)
             key == XlKey(e1, e2)
         IN  IF key \in s.found
             THEN s
             ELSE [s EXCEPT !.found = @ \cup {key},
                            !.data = Append(@, [id |-> nl, r1 |-> e1, r2 |-> e2,
                                                score |-> l.score])]

\* inf.close(); return data
XlFinish(s) == [s EXCEPT !.pc = "done", !.file = "closed", !.result = <<s.data>>]

XlReadLine ==
    /\ xl.pc = "scan"
    /\ Len(xlines) < MaxXlLines
    /\ \E l \in XlLines :
          /\ xlines' = Append(xlines, l)
          /\ xl' = XlProcess(xl, Len(xlines), l, max_num, name_map, named_offsets)
    /\ UNCHANGED <<max_num, name_map, named_offsets, dsspVars>>

XlReturn ==
    /\ xl.pc = "scan"
    /\ xl' = XlFinish(xl)
    /\ UNCHANGED <<xlines, max_num, name_map, named_offsets, dsspVars>>

DsspIdle ==
    /\ lines = <<>>
    /\ limit_to_chains = {}
    /\ st = [pc |-> "idle"]

InitXlinks ==
    /\ xlines = <<>>
    /\ max_num \in MaxNums
    /\ \E a \in XlArguments : name_map = a[1] /\ named_offsets = a[2]
    /\ xl = XlInit
    /\ DsspIdle

NextXlinks == XlReadLine \/ XlReturn

SpecXlinks == InitXlinks /\ [][NextXlinks]_vars

(***************************************************************************)
(* Properties of parse_dssp                                                *)
(***************************************************************************)

Last(seq) == seq[Len(seq)]

\* The last line read was a residue row that passed the chain filter.
LastIsResidue ==
    /\ lines /= <<>>
    /\ ~Last(lines).brk
    /\ ~FilteredOut(Last(lines), limit_to_chains)

LastIsBreak == lines /= <<>> /\ Last(lines).brk

\* The documented classification of the structure codes.
ClassOf(code) ==
    CASE code \in {"G", "H", "I"} -> "helix"
      [] code \in {"E", "B"} -> "beta"
      [] code \in {" ", "T", "S"} -> "loop"
      [] OTHER -> "none"

\* rows[i..j] is a maximal run of consecutive residue rows of one class.
IsRun(rows, i, j) ==
    /\ i <= j
    /\ \A k \in i..j : ~rows[k].brk /\ ClassOf(rows[k].ss) = ClassOf(rows[i].ss)
    /\ i = 1 \/ rows[i - 1].brk \/ ClassOf(rows[i - 1].ss) /= ClassOf(rows[i].ss)
    /\ j = Len(rows) \/ rows[j + 1].brk \/ ClassOf(rows[j + 1].ss) /= ClassOf(rows[j].ss)

RunsOf(rows, class) ==
    {r \in (1..Len(rows)) \X (1..Len(rows)) :
        IsRun(rows, r[1], r[2]) /\ ClassOf(rows[r[1]].ss) = class}

\* The runs of a class in file order.
RunSeq(rows, class) ==
    LET R == RunsOf(rows, class)
    IN  [k \in 1..Cardinality(R) |->
            CHOOSE r \in R : Cardinality({q \in R : q[1] < r[1]}) = k - 1]

RunSegment(rows, r) ==
    [chain |-> rows[r[1]].chain, residue_tuple |-> <<rows[r[1]].num, rows[r[2]].num>>]

ExpectedSegments(rows, class) ==
    LET rs == RunSeq(rows, class) IN [k \in 1..Len(rs) |-> RunSegment(rows, rs[k])]

\* The strands of the runs closed under sheet label sh, in file order.
ExpectedStrands(rows, sh) ==
    LET rs == SelectSeq(RunSeq(rows, "beta"), LAMBDA r : rows[r[2]].sheet = sh)
    IN  [k \in 1..Len(rs) |-> RunSegment(rows, rs[k])]

ClosedLabels(rows) == {rows[r[2]].sheet : r \in RunsOf(rows, "beta")}

RECURSIVE Flatten(_)
Flatten(groups) ==
    IF groups = <<>> THEN <<>> ELSE Head(groups) \o Flatten(Tail(groups))

Count(seq, x) == Cardinality({i \in 1..Len(seq) : seq[i] = x})

SameBag(a, b) ==
    /\ Len(a) = Len(b)
    /\ \A i \in 1..Len(a) : Count(a, a[i]) = Count(b, a[i])

\* The input with the filtered-out residue rows deleted.
Kept(rows, filter) == SelectSeq(rows, LAMBDA l : l.brk \/ ~FilteredOut(l, filter))

SingleChain(rows) == \A i, j \in 1..Len(rows) : rows[i].brk \/ rows[j].brk \/ rows[i].chain = rows[j].chain

ValidCodes(rows) == \A i \in 1..Len(rows) : rows[i].brk \/ ClassOf(rows[i].ss) /= "none"

Terminated == st.pc \in {"done", "error"}

\* C1: with one chain, no filter and known codes, the call returns, helix and
\* loop are the maximal runs of their class in file order, and the strands
\* of the beta groups are the maximal beta runs, each exactly once.
C1_Segmentation ==
    (Terminated /\ limit_to_chains = {} /\ SingleChain(lines) /\ ValidCodes(lines)) =>
        /\ st.pc = "done"
        /\ st.result[1].helix = ExpectedSegments(lines, "helix")
        /\ st.result[1].loop = ExpectedSegments(lines, "loop")
        /\ SameBag(Flatten(st.result[1].beta), ExpectedSegments(lines, "beta"))

\* The same statement for the inputs whose first data row is a residue row.
C1_SegmentationAfterResidue ==
    (lines /= <<>> /\ ~lines[1].brk) => C1_Segmentation

C5_Classification ==
    /\ LastIsResidue /\ ClassOf(Last(lines).ss) /= "none" =>
          /\ st.pc \in {"scan", "done"}
          /\ st.sstype = ClassOf(Last(lines).ss)
    /\ LastIsResidue /\ ClassOf(Last(lines).ss) = "none" =>
          /\ st.pc = "error"
          /\ st.err = [type |-> "KeyError", arg |-> Last(lines).ss]
          /\ st.result = <<>>
    /\ st.pc = "error" /\ st.err.type = "KeyError" =>
          LastIsResidue /\ ClassOf(Last(lines).ss) = "none"

C5_Witness ==
    /\ st.pc = "error"
    /\ st.err = [type |-> "KeyError", arg |-> "X"]
    /\ Len(lines) = 3
    /\ st.sses.helix /= <<>>

\* C6: a chain-break row never fails the call and leaves no segment open,
\* wherever it stands.
C6_BreakRowSkipped ==
    LastIsBreak =>
        /\ st.pc /= "error"
        /\ st.pc = "scan" => st.prev_sstype = None /\ st.prev_beta_id = None

\* The same statement for a break row that follows a residue row that
\* passed the filter.
C6_BreakAfterResidue ==
    (LastIsBreak /\ \E i \in 1..Len(lines) : ~lines[i].brk /\ ~FilteredOut(lines[i], limit_to_chains))
        => C6_BreakRowSkipped

RECURSIVE RunAll(_, _, _)
RunAll(s, rows, filter) ==
    IF rows = <<>> \/ s.pc = "error"
    THEN s
    ELSE RunAll(ProcessLine(s, Head(rows), filter), Tail(rows), filter)

\* C7: with a filter, the call behaves as the call without a filter on the
\* input with the filtered-out residue rows deleted: same state after every
\* line, same failure, same result (beta groups in some dict order).
C7_FilterIsDeletion ==
    (limit_to_chains /= {} /\ st.start) =>
        LET ref == RunAll([DsspInit EXCEPT !.start = TRUE], Kept(lines, limit_to_chains), {})
        IN  /\ st.pc \in {"scan", "error"} => st = ref
            /\ st.pc = "done" =>
                  /\ ref.pc = "scan"
                  /\ \E order \in KeyOrders(DOMAIN FinalSSE(ref).beta_dict) :
                        st.result = DsspFinish(ref, order, TRUE).result

\* Two helix rows of the kept chain around a filtered-out row form one segment.
C7_Witness ==
    /\ st.pc = "done"
    /\ limit_to_chains = {"A"}
    /\ Len(lines) = 3
    /\ lines[2].chain = "B" /\ ~lines[2].brk
    /\ st.result[1].helix = <<[chain |-> "A", residue_tuple |-> <<1, 2>>]>>

\* C8: the open segment has the chain of the residue row it has just absorbed.
C8_SegmentChainFixed ==
    (st.pc = "scan" /\ LastIsResidue) => st.cur_sse.chain = Last(lines).chain

AllSegments(sses) == sses.helix \o sses.loop \o Flatten(sses.beta)

\* C9: every returned segment has start <= end.
C9_RangeOrdered ==
    st.pc = "done" =>
        \A i \in 1..Len(AllSegments(st.result[1])) :
            AllSegments(st.result[1])[i].residue_tuple[1] <= AllSegments(st.result[1])[i].residue_tuple[2]

(***************************************************************************)
(* Properties of parse_xlinks_davis                                        *)
(***************************************************************************)

\* The documented end of a row: the name after name_map, the residue index
\* plus the offset registered for that name.
CanonicalName(n) == IF n \in DOMAIN name_map THEN name_map[n] ELSE n

CanonicalIndex(n, t) ==
    ParseInt(t) + (IF CanonicalName(n) \in DOMAIN named_offsets
                   THEN named_offsets[CanonicalName(n)] ELSE 0)

RowEnd1(l) == [molecule |-> CanonicalName(l.n1), residue_index |-> CanonicalIndex(l.n1, l.t1)]
RowEnd2(l) == [molecule |-> CanonicalName(l.n2), residue_index |-> CanonicalIndex(l.n2, l.t2)]

\* The unordered pair of the two end strings.
RowPair(l) == {EndString(RowEnd1(l)), EndString(RowEnd2(l))}
RecordPair(rec) == {EndString(rec.r1), EndString(rec.r2)}

\* The number of leading rows the call has to examine.
ExaminedCount ==
    IF max_num = -1 \/ Len(xlines) < max_num THEN Len(xlines) ELSE max_num

\* Zero-based numbers of the examined rows that are the first with their pair.
FirstRows == {i \in 0..(ExaminedCount - 1) :
                 \A j \in 0..(i - 1) : RowPair(xlines[j + 1]) /= RowPair(xlines[i + 1])}

RecordOfRow(i) ==
    [id |-> i, r1 |-> RowEnd1(xlines[i + 1]), r2 |-> RowEnd2(xlines[i + 1]),
     score |-> xlines[i + 1].score]

\* C3: the returned records have pairwise different unordered pairs of ends,
\* and they are, in file order, the records of the first rows of each pair,
\* with that row's score and ends as ordered in the row.
C3_Deduplication ==
    xl.pc = "done" =>
        LET data == xl.result[1]
        IN  /\ \A i, j \in 1..Len(data) : RecordPair(data[i]) = RecordPair(data[j]) => i = j
            /\ Len(data) = Cardinality(FirstRows)
            /\ \A i \in FirstRows : \E k \in 1..Len(data) : data[k] = RecordOfRow(i)
            /\ \A k \in 1..Len(data) : \A m \in 1..Len(data) : k < m => data[k].id < data[m].id

\* A swapped duplicate with another score is dropped and the call returns.
C3_Witness ==
    /\ xl.pc = "done"
    /\ Len(xlines) = 3
    /\ xlines[1].n1 = <<"A">> /\ xlines[2].n1 = <<"B">> /\ xlines[1].t1 = <<"1">>
    /\ xlines[1].score /= xlines[2].score
    /\ xlines[3].n1 = <<"a">>
    /\ name_map = AliasMap /\ named_offsets = OffsetA
    /\ max_num = -1
    /\ Len(xl.result[1]) = 1
    /\ xl.result[1][1].score = xlines[1].score

\* C4: with a bound n >= 0 only the rows numbered below n are examined: at
\* most n records, each from a row below n, a record for a row below n
\* exactly when no earlier row has its pair, no failure on a row numbered n
\* or more; without a bound every row is examined.
C4_MaxRecords ==
    /\ (xl.pc = "done" /\ max_num >= 0) =>
          LET data == xl.result[1]
          IN  /\ Len(data) <= max_num
              /\ \A k \in 1..Len(data) : data[k].id < max_num /\ data[k].id < Len(xlines)
              /\ \A i \in 0..(Len(xlines) - 1) :
                    (\E k \in 1..Len(data) : data[k].id = i) <=> (i < max_num /\ i \in FirstRows)
    /\ (xl.pc = "error" /\ max_num >= 0) => Len(xlines) <= max_num
    /\ (xl.pc = "scan" /\ max_num >= 0) =>
          \A i \in 1..Len(xlines) : ~xlines[i].ok => i > max_num
    /\ (xl.pc = "done" /\ max_num = -1) =>
          /\ \A i \in 1..Len(xlines) :
                /\ xlines[i].ok
                /\ \E k \in 1..Len(xl.result[1]) : RecordPair(xl.result[1][k]) = RowPair(xlines[i])
    /\ (xl.pc = "scan" /\ max_num = -1) => \A i \in 1..Len(xlines) : xlines[i].ok

\* Bound 2 on three rows: a duplicate among the first two is not replaced by
\* the third row, and a malformed third row is not looked at.
C4_Witness ==
    /\ xl.pc = "done"
    /\ max_num = 2
    /\ Len(xlines) = 3
    /\ RowPair(xlines[1]) = RowPair(xlines[2])
    /\ ~xlines[3].ok
    /\ Len(xl.result[1]) = 1

\* C10: when a call has ended, by return or by exception, its file is closed.
C10_FileClosed ==
    /\ st.pc \in {"done", "error"} => st.file = "closed"
    /\ xl.pc \in {"done", "error"} => xl.file = "closed"

====
